---------------------------- MODULE Spec2Model ----------------------------
(***************************************************************************)
(* Model of surgishop_workspaces/hooks.py.                                 *)
(*                                                                         *)
(* hooks.py is a Python module whose body is seven assignment statements   *)
(* (lines 1-7) followed by comments only (lines 9-228).  The state is the  *)
(* module namespace of each interpreter that imports it; the operations    *)
(* are the execution of the next statement of the module body, the         *)
(* re-execution of the body in the same namespace (a reload), and the read *)
(* of a module-level name by the host framework.                           *)
(***************************************************************************)
EXTENDS Integers, Sequences, FiniteSets, TLC

(***************************************************************************)
(* Python values that occur in the file: str, list and dict literals.      *)
(***************************************************************************)
Str(s) == [type |-> "str", val |-> s]

List(items) == [type |-> "list", val |-> items]

Dict(pairs) == [type |-> "dict", val |-> pairs]

(***************************************************************************)
(* The module body: the assignment statements of lines 1-7, in source      *)
(* order.  Lines 8-228 are blank or comments and contribute no statement.  *)
(***************************************************************************)
ProgramRenamedApp ==
    << [target |-> "app_name",        value |-> Str("surgishop_workspace")],
       [target |-> "app_title",       value |-> Str("SurgiShop Workspaces")],
       [target |-> "app_publisher",   value |-> Str("SurgiShop")],
       [target |-> "app_description", value |-> Str("Custom workspaces for SurgiShop ERPNext")],
       [target |-> "app_email",       value |-> Str("gary@surgishop.com")],
       [target |-> "app_license",     value |-> Str("mit")],
       [target |-> "required_apps",   value |-> List(<<Str("erpnext")>>)] >>

ProgramExtraDependency ==
    << [target |-> "app_name",        value |-> Str("surgishop_workspaces")],
       [target |-> "app_title",       value |-> Str("SurgiShop Workspaces")],
       [target |-> "app_publisher",   value |-> Str("SurgiShop")],
       [target |-> "app_description", value |-> Str("Custom workspaces for SurgiShop ERPNext")],
       [target |-> "app_email",       value |-> Str("gary@surgishop.com")],
       [target |-> "app_license",     value |-> Str("mit")],
       [target |-> "required_apps",   value |-> List(<<Str("frappe"), Str("erpnext")>>)] >>

ProgramSelfDependency ==
    << [target |-> "app_name",        value |-> Str("surgishop_workspaces")],
       [target |-> "app_title",       value |-> Str("SurgiShop Workspaces")],
       [target |-> "app_publisher",   value |-> Str("SurgiShop")],
       [target |-> "app_description", value |-> Str("Custom workspaces for SurgiShop ERPNext")],
       [target |-> "app_email",       value |-> Str("gary@surgishop.com")],
       [target |-> "app_license",     value |-> Str("mit")],
       [target |-> "required_apps",   value |-> List(<<Str("surgishop_workspaces")>>)] >>

ProgramWithBeforeInstall ==
    << [target |-> "app_name",        value |-> Str("surgishop_workspaces")],
       [target |-> "app_title",       value |-> Str("SurgiShop Workspaces")],
       [target |-> "app_publisher",   value |-> Str("SurgiShop")],
       [target |-> "app_description", value |-> Str("Custom workspaces for SurgiShop ERPNext")],
       [target |-> "app_email",       value |-> Str("gary@surgishop.com")],
       [target |-> "app_license",     value |-> Str("mit")],
       [target |-> "required_apps",   value |-> List(<<Str("erpnext")>>)],
       [target |-> "before_install",  value |-> Str("surgishop_workspaces.install.before_install")] >>

ProgramWithoutLicense ==
    << [target |-> "app_name",        value |-> Str("surgishop_workspaces")],
       [target |-> "app_title",       value |-> Str("SurgiShop Workspaces")],
       [target |-> "app_publisher",   value |-> Str("SurgiShop")],
       [target |-> "app_description", value |-> Str("Custom workspaces for SurgiShop ERPNext")],
       [target |-> "app_email",       value |-> Str("gary@surgishop.com")],
       [target |-> "required_apps",   value |-> List(<<Str("erpnext")>>)] >>

ProgramWithPageJs ==
    << [target |-> "app_name",        value |-> Str("surgishop_workspaces")],
       [target |-> "app_title",       value |-> Str("SurgiShop Workspaces")],
       [target |-> "app_publisher",   value |-> Str("SurgiShop")],
       [target |-> "app_description", value |-> Str("Custom workspaces for SurgiShop ERPNext")],
       [target |-> "app_email",       value |-> Str("gary@surgishop.com")],
       [target |-> "app_license",     value |-> Str("mit")],
       [target |-> "required_apps",   value |-> List(<<Str("erpnext")>>)],
       [target |-> "page_js",         value |-> Dict(<< <<Str("page"), Str("public/js/file.js")>> >>)] >>

ProgramReassigned ==
    << [target |-> "app_name",        value |-> Str("surgishop_workspaces")],
       [target |-> "app_title",       value |-> Str("SurgiShop Workspaces")],
       [target |-> "app_publisher",   value |-> Str("SurgiShop")],
       [target |-> "app_description", value |-> Str("Custom workspaces for SurgiShop ERPNext")],
       [target |-> "app_email",       value |-> Str("gary@surgishop.com")],
       [target |-> "required_apps",   value |-> List(<<Str("erpnext")>>)],
       [target |-> "app_license",     value |-> Str("mit")],
       [target |-> "app_name",        value |-> Str("surgishop_workspaces")] >>

Program ==
    << [target |-> "app_name",        value |-> Str("surgishop_workspaces")],
       [target |-> "app_title",       value |-> Str("SurgiShop Workspaces")],
       [target |-> "app_publisher",   value |-> Str("SurgiShop")],
       [target |-> "app_description", value |-> Str("Custom workspaces for SurgiShop ERPNext")],
       [target |-> "app_email",       value |-> Str("gary@surgishop.com")],
       [target |-> "app_license",     value |-> Str("mit")],
       [target |-> "required_apps",   value |-> List(<<Str("erpnext")>>)] >>

(***************************************************************************)
(* The names that occur only in commented-out assignments (lines 9-228).   *)
(***************************************************************************)
AssetIncludeNames ==
    { "app_include_css", "app_include_js", "web_include_css", "web_include_js",
      "website_theme_scss", "webform_include_js", "webform_include_css",
      "page_js", "doctype_js", "doctype_list_js", "doctype_tree_js",
      "doctype_calendar_js", "app_include_icons" }

HookNames ==
    AssetIncludeNames \cup
    { "home_page", "role_home_page", "generators", "jinja",
      "before_install", "after_install", "before_uninstall", "after_uninstall",
      "before_app_install", "after_app_install",
      "before_app_uninstall", "after_app_uninstall",
      "notification_config", "permission_query_conditions", "has_permission",
      "override_doctype_class", "doc_events", "scheduler_events", "before_tests",
      "override_whitelisted_methods", "override_doctype_dashboards",
      "auto_cancel_exempted_doctypes", "ignore_links_on_delete",
      "before_request", "after_request", "before_job", "after_job",
      "user_data_fields", "auth_hooks", "export_python_type_annotations",
      "default_log_clearing_doctypes" }

MetadataNames ==
    { "app_name", "app_title", "app_publisher", "app_description",
      "app_email", "app_license", "required_apps" }

Names == MetadataNames \cup HookNames

(***************************************************************************)
(* Bounds.                                                                 *)
(***************************************************************************)
\* Interpreters that import the module independently of each other.
Loaders == {"worker1", "worker2"}

\* How many times one interpreter executes the module body (1 = no reload).
MaxLoads == 2

Done == Len(Program) + 1

EmptyNamespace == [n \in {} |-> Str("")]

NoRead == [loader |-> "", name |-> "", found |-> FALSE, value |-> Str("")]

VARIABLES
    pc,        \* pc[p]: index of the next statement of the body, Done after the last
    ns,        \* ns[p]: the module namespace, a function from bound names to values
    trace,     \* trace[p]: targets assigned so far by the current execution of the body
    loads,     \* loads[p]: number of executions of the body started (1 = the import)
    lastRead   \* result of the host's latest read of a module-level name

vars == <<pc, ns, trace, loads, lastRead>>

(***************************************************************************)
(* NAME = value: bind the name in the namespace, replacing any binding.    *)
(***************************************************************************)
AssignAccumulate(env, target, value) ==
    [n \in (DOMAIN env) \cup {target} |->
        IF n # target THEN env[n]
        ELSE IF target \in DOMAIN env /\ env[target].type = "list" /\ value.type = "list"
             THEN List(env[target].val \o value.val)
             ELSE value]

Assign(env, target, value) ==
    [n \in (DOMAIN env) \cup {target} |-> IF n = target THEN value ELSE env[n]]

Init ==
    /\ pc = [p \in Loaders |-> 1]
    /\ ns = [p \in Loaders |-> EmptyNamespace]
    /\ trace = [p \in Loaders |-> <<>>]
    /\ loads = [p \in Loaders |-> 1]
    /\ lastRead = NoRead

(***************************************************************************)
(* The interpreter executes the next statement of the module body.         *)
(***************************************************************************)
Exec(p) ==
    /\ pc[p] < Done
    /\ LET stmt == Program[pc[p]] IN
        /\ ns' = [ns EXCEPT ![p] = Assign(ns[p], stmt.target, stmt.value)]
        /\ trace' = [trace EXCEPT ![p] = Append(trace[p], stmt.target)]
    /\ pc' = [pc EXCEPT ![p] = pc[p] + 1]
    /\ UNCHANGED <<loads, lastRead>>

(***************************************************************************)
(* The body is executed again in the namespace the previous execution      *)
(* left (a reload keeps the module object and its bindings).               *)
(***************************************************************************)
Reload(p) ==
    /\ pc[p] = Done
    /\ loads[p] < MaxLoads
    /\ pc' = [pc EXCEPT ![p] = 1]
    /\ trace' = [trace EXCEPT ![p] = <<>>]
    /\ loads' = [loads EXCEPT ![p] = loads[p] + 1]
    /\ UNCHANGED <<ns, lastRead>>

(***************************************************************************)
(* The host framework looks a name up in the loaded module.                *)
(***************************************************************************)
HostRead(p, n) ==
    /\ pc[p] = Done
    /\ lastRead' = IF n \in DOMAIN ns[p]
                   THEN [loader |-> p, name |-> n, found |-> TRUE, value |-> ns[p][n]]
                   ELSE [loader |-> p, name |-> n, found |-> FALSE, value |-> Str("")]
    /\ UNCHANGED <<pc, ns, trace, loads>>

Next ==
    \/ \E p \in Loaders : Exec(p)
    \/ \E p \in Loaders : Reload(p)
    \/ \E p \in Loaders, n \in Names : HostRead(p, n)

Spec == Init /\ [][Next]_vars

\* The interpreter runs a module body to its end once it has started it.
FairSpec == Spec /\ \A p \in Loaders : WF_vars(Exec(p))

\* p has completed at least one execution of the module body.
Loaded(p) == pc[p] = Done \/ loads[p] > 1

TypeOK ==
    /\ pc \in [Loaders -> 1..Done]
    /\ loads \in [Loaders -> 1..MaxLoads]
    /\ \A p \in Loaders : DOMAIN ns[p] \subseteq Names

(***************************************************************************)
(* Properties.                                                             *)
(***************************************************************************)
SourceOrder ==
    << "app_name", "app_title", "app_publisher", "app_description",
       "app_email", "app_license", "required_apps" >>

\* C1: once the module has been loaded, app_name is bound to exactly the
\* string "surgishop_workspaces", in every later state, and every host read
\* of app_name returns that string.
C1_AppNameLiteral ==
    /\ \A p \in Loaders : Loaded(p) =>
          /\ "app_name" \in DOMAIN ns[p]
          /\ ns[p]["app_name"] = Str("surgishop_workspaces")
    /\ lastRead.name = "app_name" =>
          lastRead.found /\ lastRead.value = Str("surgishop_workspaces")

C1_Witness ==
    /\ lastRead.name = "app_name"
    /\ lastRead.found
    /\ \E p \in Loaders : loads[p] = MaxLoads /\ pc[p] = Done

\* C2: once the module has been loaded, required_apps is a sequence of
\* length exactly 1 whose only element is the string "erpnext".
C2_RequiredApps ==
    \A p \in Loaders : Loaded(p) =>
        /\ "required_apps" \in DOMAIN ns[p]
        /\ ns[p]["required_apps"].type = "list"
        /\ Len(ns[p]["required_apps"].val) = 1
        /\ ns[p]["required_apps"].val[1] = Str("erpnext")

C2_Witness ==
    /\ lastRead.name = "required_apps"
    /\ lastRead.found
    /\ lastRead.value.type = "list"

\* C3: no hook name is ever bound in the module namespace, and every host
\* lookup of a hook name finds nothing.
C3_NoActiveHooks ==
    /\ \A p \in Loaders : \A h \in HookNames : h \notin DOMAIN ns[p]
    /\ lastRead.name \in HookNames => ~lastRead.found

C3_Witness ==
    /\ lastRead.name = "scheduler_events"
    /\ ~lastRead.found
    /\ Loaded(lastRead.loader)

\* C4: once the module has been loaded, the set of bound module-level names
\* is exactly the seven metadata names.
C4_ExactlySevenNames ==
    \A p \in Loaders : Loaded(p) => DOMAIN ns[p] = MetadataNames

C4_Witness ==
    \A p \in Loaders : pc[p] = Done /\ Cardinality(DOMAIN ns[p]) = 7

\* C5 as stated: once the module has been loaded, every value bound at
\* module level is a string.
C5_AllValuesAreStrings ==
    \A p \in Loaders : Loaded(p) =>
        \A n \in DOMAIN ns[p] : ns[p][n].type = "str"

\* C5 as amended: once the module has been loaded, every value bound at
\* module level is a string, except required_apps, which is a flat sequence
\* of strings; there is no mapping value and no nested sequence.
C5_FlatMetadata ==
    \A p \in Loaders : Loaded(p) =>
        \A n \in DOMAIN ns[p] :
            \/ ns[p][n].type = "str"
            \/ /\ n = "required_apps"
               /\ ns[p][n].type = "list"
               /\ \A i \in 1..Len(ns[p][n].val) : ns[p][n].val[i].type = "str"

C5_Witness ==
    \E p \in Loaders :
        /\ pc[p] = Done
        /\ ns[p]["required_apps"].type = "list"
        /\ ns[p]["app_license"].type = "str"

\* C6: the load is straight-line: the statements run one after the other
\* without branch or failure, an execution of the body that has started
\* always reaches its end, at every point the names assigned by the current
\* execution are the first pc-1 of the seven in source order (each once,
\* app_name first, required_apps last), and nothing is assigned once the
\* body has ended.
C6_StraightLineLoad ==
    /\ [](\A p \in Loaders : trace[p] = SubSeq(SourceOrder, 1, pc[p] - 1))
    /\ [][\A p \in Loaders :
            /\ pc[p] < Done => pc'[p] \in {pc[p], pc[p] + 1}
            /\ pc[p] = Done /\ pc'[p] = Done =>
                   ns'[p] = ns[p] /\ trace'[p] = trace[p]]_vars
    /\ \A p \in Loaders : [](pc[p] < Done => <>(pc[p] = Done))

C6_Witness ==
    \E p \in Loaders :
        /\ pc[p] = Done
        /\ trace[p] = SourceOrder
        /\ lastRead.loader = p

C8_WellFormedDependencies ==
    \A p \in Loaders : Loaded(p) =>
        LET apps == ns[p]["required_apps"].val IN
        /\ \A i, j \in 1..Len(apps) : apps[i] = apps[j] => i = j
        /\ \A i \in 1..Len(apps) : apps[i] # ns[p]["app_name"]

C8_Witness ==
    \E p \in Loaders :
        /\ Loaded(p)
        /\ Len(ns[p]["required_apps"].val) >= 1
        /\ ns[p]["app_name"].type = "str"

=============================================================================
